---- MODULE Spec2Model ----
(***************************************************************************)
(* Handle lifecycle of libs/hwui/jni/RenderEffect.cpp.                     *)
(*                                                                         *)
(* Every factory entry point turns its handle arguments into raw node      *)
(* pointers, takes one reference on each with sk_ref_sp, hands those       *)
(* references to an SkImageFilters constructor and returns the released    *)
(* result pointer as a jlong.  The finalizer drops one reference with      *)
(* SkSafeUnref.  The state is the native heap of filter nodes, the         *)
(* reference counts of the colour filters, and the handles the managed     *)
(* caller still owns.                                                      *)
(*                                                                         *)
(* The SkImageFilters constructors are called, not defined, by this file.  *)
(* They are modelled by the contract their call sites rely on: a           *)
(* constructor consumes the references it is passed and either returns a   *)
(* reference to a newly allocated node that keeps them, or returns null    *)
(* and drops them.                                                         *)
(***************************************************************************)
EXTENDS Integers, Sequences, FiniteSets

VARIABLES heap, colorFilters, crashed, owned, last, pc, reg

vars == <<heap, colorFilters, crashed, owned, last, pc, reg>>

(* ---------------------------- bounds ---------------------------------- *)

\* Number of node addresses the native heap can hand out.
MaxAddr == 2
\* Number of handles the managed caller holds at the same time.
MaxHandles == 2

\* The heap of the lifecycle and concurrent specifications, and the larger
\* ones of the blend and chain specifications, where nothing is released.
Addr == 1..MaxAddr
BlendAddr == 1..(MaxAddr + 1)
ChainAddr == 1..(MaxAddr + 2)
\* The threads of the concurrent specification.
Thread == {"t1", "t2", "t3"}

(* ------------------------ values of the boundary ---------------------- *)

\* SkTileMode, the target of static_cast<SkTileMode>(edgeTreatment).
kClamp == 0
kDecal == 3
\* SkBlendMode, the target of static_cast<SkBlendMode>(blendmodeHandle).
kSrc == 1
kSrcOver == 3
kPlus == 12

\* Full coverage of a pixel: colour and alpha are premultiplied, in 0..Opaque.
Opaque == 2

Pix == {px \in (0..Opaque) \X (0..Opaque) : px[1] <= px[2]}

\* (offsetX, offsetY) pairs the caller passes to createOffsetEffect.
OffsetArgs == {<<5, -3>>}
\* (radiusX, radiusY, edgeTreatment) triples passed to createBlurEffect.
BlurArgs == {<<2, 3, kClamp>>, <<2, 0, kDecal>>, <<3, 3, kClamp>>}
\* bitmapHandle values, and the one (src, dst) rectangle pair: a 100x100
\* source rectangle drawn into a 50x50 destination rectangle.
BitmapHandles == {1, 2}
SrcRect == <<0, 0, 100, 100>>
DstRect == <<0, 0, 50, 50>>
\* colorFilterHandle values (native SkColorFilter objects owned elsewhere).
ColorFilterHandles == {1}
BlendModes == {kSrc, kSrcOver, kPlus}

(* ------------------------------ heap ---------------------------------- *)

\* A free slot of the heap.
NoNode == [kind |-> "free", refcnt |-> 0, a |-> 0, b |-> 0, cf |-> 0, p |-> <<>>]

\* The memory the reference-counting primitives act on.
Mem == [n |-> heap, c |-> colorFilters, x |-> crashed]

Allocated(m, n) == n \in DOMAIN m.n /\ m.n[n].kind # "free"

\* SkRefCnt::ref through sk_ref_sp / SkSafeRef: null is skipped, a live node
\* gains one reference; a freed node is a use after free.
SkRefSp(m, n) ==
    IF n = 0 THEN m
    ELSE IF ~Allocated(m, n) THEN [m EXCEPT !.x = TRUE]
    ELSE [m EXCEPT !.n[n].refcnt = @ + 1]

\* sk_ref_sp on a colour filter.
SkRefColorFilter(m, cf) ==
    IF cf = 0 THEN m ELSE [m EXCEPT !.c[cf] = @ + 1]

SkUnrefColorFilter(m, cf) ==
    IF cf = 0 THEN m
    ELSE IF m.c[cf] = 0 THEN [m EXCEPT !.x = TRUE]
    ELSE [m EXCEPT !.c[cf] = @ - 1]

\* SkSafeUnref: null is skipped; the count drops by one, and the node whose
\* count reaches zero is deleted, its destructor dropping the references
\* it holds on its inputs.
RECURSIVE SkSafeUnref(_, _)
SkSafeUnref(m, n) ==
    IF n = 0 THEN m
    ELSE IF ~Allocated(m, n) THEN [m EXCEPT !.x = TRUE]
    ELSE IF m.n[n].refcnt > 1 THEN [m EXCEPT !.n[n].refcnt = @ - 1]
    ELSE LET nd == m.n[n]
             m1 == [m EXCEPT !.n[n] = NoNode]
             m2 == SkUnrefColorFilter(m1, nd.cf)
             m3 == SkSafeUnref(m2, nd.a)
         IN  SkSafeUnref(m3, nd.b)

FreeAddrs(m) == {n \in DOMAIN m.n : m.n[n].kind = "free"}

\* The address operator new returns: a slot that is free.
NewAddr(m) == CHOOSE n \in FreeAddrs(m) : \A k \in FreeAddrs(m) : n <= k

\* An SkImageFilters constructor handed the references (a, b, cf) already
\* taken by the caller.  ok: it builds a node, which keeps the references
\* and is returned with a count of 1.  ~ok: it returns null and the
\* references it was passed are dropped.  A heap with no free slot left
\* counts as a failed construction.
SkMake(m, ok, kind, a, b, cf, p) ==
    IF ok /\ FreeAddrs(m) # {} THEN
        LET n == NewAddr(m)
        IN  [m   |-> [m EXCEPT !.n[n] = [kind |-> kind, refcnt |-> 1, a |-> a,
                                         b |-> b, cf |-> cf, p |-> p]],
             ret |-> n]
    ELSE [m   |-> SkSafeUnref(SkSafeUnref(SkUnrefColorFilter(m, cf), a), b),
          ret |-> 0]

(* --------------------------- the caller ------------------------------- *)

\* What the managed caller remembers of a call: the handle it got back and
\* the arguments it passed.
Call(h, kind, a, b, p) == [h |-> h, kind |-> kind, a |-> a, b |-> b, p |-> p]

OwnedHandles == {owned[i].h : i \in 1..Len(owned)}

\* A handle argument the caller may pass: absent, or a handle it still owns.
InputHandles == {0} \cup OwnedHandles

RemoveAt(s, i) == SubSeq(s, 1, i - 1) \o SubSeq(s, i + 1, Len(s))

\* The handles the caller holds are kept in ascending order: which call
\* came first is no part of the state.
RECURSIVE Insert(_, _)
Insert(s, c) ==
    IF s = <<>> THEN <<c>>
    ELSE IF c.h <= Head(s).h THEN <<c>> \o s
    ELSE <<Head(s)>> \o Insert(Tail(s), c)

\* The state after a factory call returned r = [m, ret] to the caller.
Returned(r, op, a, b, p) ==
    /\ heap' = r.m.n
    /\ colorFilters' = r.m.c
    /\ crashed' = r.m.x
    /\ owned' = IF r.ret = 0 THEN owned
                ELSE Insert(owned, Call(r.ret, op, a, b, p))
    /\ last' = [op |-> "create", h |-> r.ret, absent |-> (a = 0 /\ b = 0)]
    /\ UNCHANGED <<pc, reg>>

(* ----------------------- the factory entry points --------------------- *)

Blur_convertRadiusToSigma(radius) ==
    IF radius > 0 THEN (57735 * radius) \div 100 + 500 ELSE 0

\* The input adopted without taking a reference on it.
offset_noRef(m, ok, offsetX, offsetY, inputFilterHandle) ==
    SkMake(m, ok, "offset", inputFilterHandle, 0, 0, <<offsetX, offsetY>>)

offset(m, ok, offsetX, offsetY, inputFilterHandle) ==
    SkMake(SkRefSp(m, inputFilterHandle), ok, "offset",
           inputFilterHandle, 0, 0, <<offsetX, offsetY>>)

createOffsetEffect(ok, offsetX, offsetY, inputFilterHandle) ==
    /\ ~crashed
    /\ Returned(offset(Mem, ok, offsetX, offsetY, inputFilterHandle),
                "offset", inputFilterHandle, 0, <<offsetX, offsetY>>)

\* A reference taken on the input twice.
blurFilter_doubleRef(m, ok, radiusX, radiusY, inputFilterHandle, edgeTreatment) ==
    SkMake(SkRefSp(SkRefSp(m, inputFilterHandle), inputFilterHandle), ok,
           "blur", inputFilterHandle, 0, 0,
           <<Blur_convertRadiusToSigma(radiusX),
             Blur_convertRadiusToSigma(radiusY), edgeTreatment>>)

\* The radii converted for the wrong axes.
blurFilter_swappedAxes(m, ok, radiusX, radiusY, inputFilterHandle, edgeTreatment) ==
    SkMake(SkRefSp(m, inputFilterHandle), ok, "blur", inputFilterHandle, 0, 0,
           <<Blur_convertRadiusToSigma(radiusY),
             Blur_convertRadiusToSigma(radiusX), edgeTreatment>>)

blurFilter(m, ok, radiusX, radiusY, inputFilterHandle, edgeTreatment) ==
    SkMake(SkRefSp(m, inputFilterHandle), ok, "blur", inputFilterHandle, 0, 0,
           <<Blur_convertRadiusToSigma(radiusX),
             Blur_convertRadiusToSigma(radiusY), edgeTreatment>>)

createBlurEffect(ok, radiusX, radiusY, inputFilterHandle, edgeTreatment) ==
    /\ ~crashed
    /\ Returned(blurFilter(Mem, ok, radiusX, radiusY, inputFilterHandle,
                           edgeTreatment),
                "blur", inputFilterHandle, 0,
                <<radiusX, radiusY, edgeTreatment>>)

\* The node SkImageFilters::Image is asked for; it takes no
\* filter input, only the image made of the bitmap and the two rectangles.
bitmapFilter(m, ok, bitmapHandle, srcRect, dstRect) ==
    SkMake(m, ok, "image", 0, 0, 0, <<bitmapHandle, srcRect, dstRect>>)

createBitmapEffect(ok, bitmapHandle, srcRect, dstRect) ==
    /\ ~crashed
    /\ Returned(bitmapFilter(Mem, ok, bitmapHandle, srcRect, dstRect),
                "image", 0, 0, <<bitmapHandle, srcRect, dstRect>>)

\* The node SkImageFilters::ColorFilter is asked for.
colorFilterImageFilter(m, ok, colorFilterHandle, inputFilterHandle) ==
    SkMake(SkRefSp(SkRefColorFilter(m, colorFilterHandle), inputFilterHandle),
           ok, "colorfilter", inputFilterHandle, 0, colorFilterHandle, <<>>)

createColorFilterEffect(ok, colorFilterHandle, inputFilterHandle) ==
    /\ ~crashed
    /\ Returned(colorFilterImageFilter(Mem, ok, colorFilterHandle,
                                       inputFilterHandle),
                "colorfilter", inputFilterHandle, 0, <<colorFilterHandle>>)

\* The node SkImageFilters::Blend is asked for: slot a is the
\* background, slot b the foreground.
\* The foreground adopted without taking a reference on it.
xfermodeFilter_noFgRef(m, ok, backgroundImageFilterHandle, foregroundImageFilterHandle, blendmodeHandle) ==
    SkMake(SkRefSp(m, backgroundImageFilterHandle),
           ok, "blend", backgroundImageFilterHandle,
           foregroundImageFilterHandle, 0, <<blendmodeHandle>>)

\* The foreground passed where the background belongs.
xfermodeFilter_swapped(m, ok, backgroundImageFilterHandle, foregroundImageFilterHandle, blendmodeHandle) ==
    SkMake(SkRefSp(SkRefSp(m, backgroundImageFilterHandle),
                   foregroundImageFilterHandle),
           ok, "blend", foregroundImageFilterHandle,
           backgroundImageFilterHandle, 0, <<blendmodeHandle>>)

xfermodeFilter(m, ok, backgroundImageFilterHandle, foregroundImageFilterHandle, blendmodeHandle) ==
    SkMake(SkRefSp(SkRefSp(m, backgroundImageFilterHandle),
                   foregroundImageFilterHandle),
           ok, "blend", backgroundImageFilterHandle,
           foregroundImageFilterHandle, 0, <<blendmodeHandle>>)

createBlendModeEffect(ok, backgroundImageFilterHandle, foregroundImageFilterHandle, blendmodeHandle) ==
    /\ ~crashed
    /\ Returned(xfermodeFilter(Mem, ok, backgroundImageFilterHandle,
                               foregroundImageFilterHandle, blendmodeHandle),
                "blend", backgroundImageFilterHandle,
                foregroundImageFilterHandle, <<blendmodeHandle>>)

\* The node SkImageFilters::Compose is asked for: slot a is
\* the outer filter, slot b the inner filter.
\* Both inputs adopted without taking a reference on them.
composeFilter_noRef(m, ok, outerFilterHandle, innerFilterHandle) ==
    SkMake(m, ok, "compose", outerFilterHandle, innerFilterHandle, 0, <<>>)

\* A reference taken on the outer filter twice.
composeFilter_leak(m, ok, outerFilterHandle, innerFilterHandle) ==
    SkMake(SkRefSp(SkRefSp(SkRefSp(m, outerFilterHandle), outerFilterHandle),
                   innerFilterHandle),
           ok, "compose", outerFilterHandle, innerFilterHandle, 0, <<>>)

\* The inner filter passed where the outer belongs.
composeFilter_swapped(m, ok, outerFilterHandle, innerFilterHandle) ==
    SkMake(SkRefSp(SkRefSp(m, outerFilterHandle), innerFilterHandle),
           ok, "compose", innerFilterHandle, outerFilterHandle, 0, <<>>)

composeFilter(m, ok, outerFilterHandle, innerFilterHandle) ==
    SkMake(SkRefSp(SkRefSp(m, outerFilterHandle), innerFilterHandle),
           ok, "compose", outerFilterHandle, innerFilterHandle, 0, <<>>)

createChainEffect(ok, outerFilterHandle, innerFilterHandle) ==
    /\ ~crashed
    /\ Returned(composeFilter(Mem, ok, outerFilterHandle, innerFilterHandle),
                "compose", outerFilterHandle, innerFilterHandle, <<>>)

(* ---------------------------- finalizer ------------------------------- *)

\* A finalizer that forgets to drop the reference.
RenderEffect_safeUnref_noop(m, filter) == m

RenderEffect_safeUnref(m, filter) == SkSafeUnref(m, filter)

\* The managed runtime runs the finalizer on a handle it owns, once.
Release(i) ==
    /\ ~crashed
    /\ i \in 1..Len(owned)
    /\ LET m == RenderEffect_safeUnref(Mem, owned[i].h)
       IN  /\ heap' = m.n
           /\ colorFilters' = m.c
           /\ crashed' = m.x
    /\ owned' = RemoveAt(owned, i)
    /\ last' = [op |-> "unref", h |-> owned[i].h,
                absent |-> (owned[i].a = 0 /\ owned[i].b = 0)]
    /\ UNCHANGED <<pc, reg>>

\* The finalizer run on the handle 0, the result of a failed construction.
ReleaseNull ==
    /\ ~crashed
    /\ LET m == RenderEffect_safeUnref(Mem, 0)
       IN  /\ heap' = m.n
           /\ colorFilters' = m.c
           /\ crashed' = m.x
    /\ last' = [op |-> "unref", h |-> 0, absent |-> TRUE]
    /\ UNCHANGED <<owned, pc, reg>>

(* ------------------- the entry points, step by step -------------------- *)

\* A thread inside createColorFilterEffect or the finalizer.  Its locals:
\* the two pointers cast from the handles, whether sk_ref_sp has run on
\* each, the pointer the constructor returned, and the references that a
\* running SkSafeUnref (or the destruction of the temporaries of a failed
\* construction) still has to drop.
NoReg == [cf |-> 0, a |-> 0, cfRef |-> FALSE, inRef |-> FALSE, ret |-> 0, todo |-> <<>>]

\* Threads between the call and the return of createColorFilterEffect.
InCall(t) == pc[t] \in {"args", "drop", "ret"}

\* Line 78-79: the thread enters createColorFilterEffect with a colour
\* filter handle and an input handle the caller holds (or 0).
TCall(t, colorFilterHandle, inputFilterHandle) ==
    /\ ~crashed
    /\ pc[t] = "idle"
    /\ Len(owned) + Cardinality({u \in Thread : InCall(u)}) < MaxHandles
    /\ pc' = [pc EXCEPT ![t] = "args"]
    /\ reg' = [reg EXCEPT ![t] = [NoReg EXCEPT !.cf = colorFilterHandle,
                                               !.a = inputFilterHandle]]
    /\ UNCHANGED <<heap, colorFilters, crashed, owned, last>>

\* Line 81: sk_ref_sp(colorFilter), one atomic increment.
TRefColorFilter(t) ==
    /\ ~crashed
    /\ pc[t] = "args" /\ ~reg[t].cfRef
    /\ colorFilters' = SkRefColorFilter(Mem, reg[t].cf).c
    /\ reg' = [reg EXCEPT ![t].cfRef = TRUE]
    /\ UNCHANGED <<heap, crashed, owned, last, pc>>

\* The input adopted without the increment.
TRefInput_noRef(t) ==
    /\ ~crashed
    /\ pc[t] = "args" /\ ~reg[t].inRef
    /\ reg' = [reg EXCEPT ![t].inRef = TRUE]
    /\ UNCHANGED <<heap, colorFilters, crashed, owned, last, pc>>

\* Line 81: sk_ref_sp(inputFilter), one atomic increment; the two
\* sk_ref_sp arguments are evaluated in either order.
TRefInput(t) ==
    /\ ~crashed
    /\ pc[t] = "args" /\ ~reg[t].inRef
    /\ LET m == SkRefSp(Mem, reg[t].a)
       IN  heap' = m.n /\ crashed' = m.x
    /\ reg' = [reg EXCEPT ![t].inRef = TRUE]
    /\ UNCHANGED <<colorFilters, owned, last, pc>>

\* Line 80: SkImageFilters::ColorFilter with both references taken.  It
\* either allocates the node, which keeps them, or returns null, and the
\* temporaries then drop them one by one.
TConstruct(t, ok) ==
    /\ ~crashed
    /\ pc[t] = "args" /\ reg[t].cfRef /\ reg[t].inRef
    /\ IF ok /\ FreeAddrs(Mem) # {}
       THEN LET r == SkMake(Mem, TRUE, "colorfilter", reg[t].a, 0, reg[t].cf, <<>>)
            IN  /\ heap' = r.m.n
                /\ colorFilters' = colorFilters
                /\ reg' = [reg EXCEPT ![t].ret = r.ret]
                /\ pc' = [pc EXCEPT ![t] = "ret"]
       ELSE /\ heap' = heap
            /\ colorFilters' = SkUnrefColorFilter(Mem, reg[t].cf).c
            /\ reg' = [reg EXCEPT ![t].todo = IF reg[t].a = 0 THEN <<>> ELSE <<reg[t].a>>]
            /\ pc' = [pc EXCEPT ![t] = IF reg[t].a = 0 THEN "ret" ELSE "drop"]
    /\ UNCHANGED <<crashed, owned, last>>

\* Line 82: the released pointer goes back to the caller as a handle.
TReturn(t) ==
    /\ ~crashed
    /\ pc[t] = "ret"
    /\ owned' = IF reg[t].ret = 0 THEN owned
                ELSE Insert(owned, Call(reg[t].ret, "colorfilter", reg[t].a, 0,
                                        <<reg[t].cf>>))
    /\ pc' = [pc EXCEPT ![t] = "idle"]
    /\ reg' = [reg EXCEPT ![t] = NoReg]
    /\ UNCHANGED <<heap, colorFilters, crashed, last>>

\* Line 118: the runtime hands a held handle to the finalizer, once, and
\* only when no call that was given the handle is still running.
TFinalize(t, i) ==
    /\ ~crashed
    /\ pc[t] = "idle"
    /\ i \in 1..Len(owned)
    /\ \A u \in Thread : InCall(u) => reg[u].a # owned[i].h
    /\ owned' = RemoveAt(owned, i)
    /\ pc' = [pc EXCEPT ![t] = "unref"]
    /\ reg' = [reg EXCEPT ![t] = [NoReg EXCEPT !.todo = <<owned[i].h>>]]
    /\ UNCHANGED <<heap, colorFilters, crashed, last>>

\* Line 119: one atomic decrement of SkSafeUnref.  The thread that takes a
\* count to zero deletes the node and has the node's references to drop.
TUnref(t) ==
    /\ ~crashed
    /\ pc[t] \in {"unref", "drop"}
    /\ reg[t].todo # <<>>
    /\ LET n == Head(reg[t].todo)
           dies == Allocated(Mem, n) /\ heap[n].refcnt = 1
           m == IF ~Allocated(Mem, n) THEN [Mem EXCEPT !.x = TRUE]
                ELSE IF dies
                     THEN SkUnrefColorFilter([Mem EXCEPT !.n[n] = NoNode], heap[n].cf)
                     ELSE [Mem EXCEPT !.n[n].refcnt = @ - 1]
           rest == Tail(reg[t].todo)
                     \o (IF dies /\ heap[n].a # 0 THEN <<heap[n].a>> ELSE <<>>)
                     \o (IF dies /\ heap[n].b # 0 THEN <<heap[n].b>> ELSE <<>>)
       IN  /\ heap' = m.n
           /\ colorFilters' = m.c
           /\ crashed' = m.x
           /\ reg' = [reg EXCEPT ![t].todo = rest]
           /\ pc' = [pc EXCEPT ![t] = IF rest # <<>> THEN pc[t]
                                      ELSE IF pc[t] = "drop" THEN "ret" ELSE "idle"]
    /\ UNCHANGED <<owned, last>>

(* --------------------------- evaluation ------------------------------- *)

\* What the filters compute is the library's; it is modelled on an image of
\* one premultiplied pixel <<colour, alpha>>, by the documented meaning of
\* each constructor.  A null input stands for the source image.

\* The pixel of the image made of a bitmap.
BitmapPixel(bitmapHandle) ==
    IF bitmapHandle = 1 THEN <<1, 1>> ELSE <<Opaque, Opaque>>

\* The colour filter behind a colour filter handle: it inverts the colour.
ApplyColorFilter(colorFilterHandle, px) == <<px[2] - px[1], px[2]>>

Min(i, j) == IF i <= j THEN i ELSE j

\* SkBlendMode: s is the source (the foreground), d the destination (the
\* background).  kSrc: s.  kSrcOver: s + (1 - sa) * d.  kPlus: s + d, clamped.
BlendPx(mode, s, d) ==
    IF mode = kSrc THEN s
    ELSE IF mode = kSrcOver
         THEN <<s[1] + (d[1] * (Opaque - s[2])) \div Opaque,
                s[2] + (d[2] * (Opaque - s[2])) \div Opaque>>
    ELSE <<Min(s[1] + d[1], Opaque), Min(s[2] + d[2], Opaque)>>

RECURSIVE Eval(_, _)
Eval(n, x) ==
    IF n = 0 THEN x
    ELSE LET nd == heap[n] IN
         CASE nd.kind = "offset" ->
                \* the pixel moves away unless the offset is zero
                IF nd.p[1] = 0 /\ nd.p[2] = 0 THEN Eval(nd.a, x) ELSE <<0, 0>>
           [] nd.kind = "blur" ->
                \* a blur spreads the pixel into transparent surroundings
                \* (decal); a clamped edge repeats it and leaves it as it is
                LET i == Eval(nd.a, x) IN
                IF nd.p[3] = kDecal /\ (nd.p[1] > 0 \/ nd.p[2] > 0)
                THEN <<i[1] \div 2, i[2] \div 2>> ELSE i
           [] nd.kind = "image" -> BitmapPixel(nd.p[1])
           [] nd.kind = "colorfilter" -> ApplyColorFilter(nd.cf, Eval(nd.a, x))
           [] nd.kind = "blend" ->
                \* slot a is the background (destination), slot b the
                \* foreground (source)
                BlendPx(nd.p[1], Eval(nd.b, x), Eval(nd.a, x))
           [] nd.kind = "compose" ->
                \* slot a is outer, slot b inner: outer(inner(source))
                Eval(nd.a, Eval(nd.b, x))
           [] OTHER -> x

(* ------------------------- specification ------------------------------ *)


InitOn(addrs) ==
    /\ heap = [n \in addrs |-> NoNode]
    /\ colorFilters = [cf \in ColorFilterHandles |-> 1]
    /\ crashed = FALSE
    /\ owned = <<>>
    /\ last = [op |-> "init", h |-> 0, absent |-> TRUE]
    /\ pc = [t \in Thread |-> "idle"]
    /\ reg = [t \in Thread |-> NoReg]

Init == InitOn(Addr)

\* The lifecycle specification: every entry point, each with one choice of
\* its numeric arguments, every choice of its handle arguments and both
\* outcomes of the constructor.
Next ==
    \/ /\ Len(owned) < MaxHandles
       /\ \E ok \in BOOLEAN, h \in InputHandles :
             createOffsetEffect(ok, 5, -3, h)
    \/ /\ Len(owned) < MaxHandles
       /\ \E ok \in BOOLEAN, h \in InputHandles :
             createBlurEffect(ok, 2, 3, h, kClamp)
    \/ /\ Len(owned) < MaxHandles
       /\ \E ok \in BOOLEAN :
             createBitmapEffect(ok, 1, SrcRect, DstRect)
    \/ /\ Len(owned) < MaxHandles
       /\ \E ok \in BOOLEAN, cf \in ColorFilterHandles, h \in InputHandles :
             createColorFilterEffect(ok, cf, h)
    \/ /\ Len(owned) < MaxHandles
       /\ \E ok \in BOOLEAN, bg \in InputHandles, fg \in InputHandles :
             createBlendModeEffect(ok, bg, fg, kSrcOver)
    \/ /\ Len(owned) < MaxHandles
       /\ \E ok \in BOOLEAN, outer \in InputHandles, inner \in InputHandles :
             createChainEffect(ok, outer, inner)
    \/ \E i \in 1..MaxHandles : Release(i)
    \/ ReleaseNull

Spec == Init /\ [][Next]_vars

\* The chain specification: the caller builds filters on the source image,
\* wraps them in colour filters and chains them, keeping every handle.
InitChain == InitOn(ChainAddr)

NextChain ==
    \/ /\ FreeAddrs(Mem) # {}
       /\ \E xy \in OffsetArgs :
             createOffsetEffect(TRUE, xy[1], xy[2], 0)
    \/ /\ FreeAddrs(Mem) # {}
       /\ createBlurEffect(TRUE, 2, 0, 0, kDecal)
    \/ /\ FreeAddrs(Mem) # {}
       /\ createBitmapEffect(TRUE, 1, SrcRect, DstRect)
    \/ /\ FreeAddrs(Mem) # {}
       /\ \E cf \in ColorFilterHandles, h \in InputHandles :
             createColorFilterEffect(TRUE, cf, h)
    \/ /\ FreeAddrs(Mem) # {}
       /\ \E outer \in InputHandles, inner \in InputHandles :
             createChainEffect(TRUE, outer, inner)

SpecChain == InitChain /\ [][NextChain]_vars

\* The blend specification: the caller builds filters on the source image
\* with every choice of the numeric arguments, wraps them in colour filters
\* and blends them in every mode, keeping every handle.
InitBlend == InitOn(BlendAddr)

NextBlend ==
    \/ /\ FreeAddrs(Mem) # {}
       /\ \E xy \in OffsetArgs :
             createOffsetEffect(TRUE, xy[1], xy[2], 0)
    \/ /\ FreeAddrs(Mem) # {}
       /\ \E r \in BlurArgs :
             createBlurEffect(TRUE, r[1], r[2], 0, r[3])
    \/ /\ FreeAddrs(Mem) # {}
       /\ \E bm \in BitmapHandles :
             createBitmapEffect(TRUE, bm, SrcRect, DstRect)
    \/ /\ FreeAddrs(Mem) # {}
       /\ \E cf \in ColorFilterHandles, h \in InputHandles :
             createColorFilterEffect(TRUE, cf, h)
    \/ /\ FreeAddrs(Mem) # {}
       /\ \E bg \in InputHandles, fg \in InputHandles, mode \in BlendModes :
             createBlendModeEffect(TRUE, bg, fg, mode)

SpecBlend == InitBlend /\ [][NextBlend]_vars

\* The concurrent specification: the threads run createColorFilterEffect
\* and the finalizer one atomic step at a time, in every interleaving.
NextConc ==
    \/ \E t \in Thread, cf \in ColorFilterHandles, h \in InputHandles : TCall(t, cf, h)
    \/ \E t \in Thread : TRefColorFilter(t)
    \/ \E t \in Thread : TRefInput(t)
    \/ \E t \in Thread, ok \in BOOLEAN : TConstruct(t, ok)
    \/ \E t \in Thread : TReturn(t)
    \/ \E t \in Thread, i \in 1..MaxHandles : TFinalize(t, i)
    \/ \E t \in Thread : TUnref(t)

SpecConc == Init /\ [][NextConc]_vars

(* =========================== claims ==================================== *)

OwnedCalls == {owned[i] : i \in 1..Len(owned)}

\* A blend mode whose result never depends on which operand is which.
Commutative(mode) == \A s \in Pix, d \in Pix : BlendPx(mode, s, d) = BlendPx(mode, d, s)

AllocatedNodes == {n \in DOMAIN heap : heap[n].kind # "free"}

\* The handles the caller holds on node n.
HandleCount(n) == Cardinality({i \in 1..Len(owned) : owned[i].h = n})

\* The input slots of allocated nodes that refer to node n, a node counted
\* twice when both of its slots do.
SlotCount(n) ==
    LET Uses(k) == (IF heap[k].a = n THEN 1 ELSE 0) + (IF heap[k].b = n THEN 1 ELSE 0)
        RECURSIVE Sum(_)
        Sum(S) == IF S = {} THEN 0
                  ELSE LET k == CHOOSE k \in S : TRUE IN Uses(k) + Sum(S \ {k})
    IN  Sum(AllocatedNodes)

\* The nodes reachable from node n through input slots, in at least one step.
Inputs(n) == {heap[n].a, heap[n].b} \ {0}

RECURSIVE ReachWithin(_, _)
ReachWithin(S, steps) ==
    IF steps = 0 THEN S
    ELSE ReachWithin(S \cup UNION {Inputs(k) : k \in S \cap DOMAIN heap}, steps - 1)

Descendants(n) == ReachWithin(Inputs(n), Cardinality(DOMAIN heap))

\* The step is the finalizer run on the handle owned[i].
Releases(i) ==
    /\ i \in 1..Len(owned)
    /\ Len(owned') < Len(owned)
    /\ owned' = RemoveAt(owned, i)

\* What a node is to the holder of a handle on it: its kind, its inputs and
\* its parameters.
Content(nd) == [kind |-> nd.kind, a |-> nd.a, b |-> nd.b, cf |-> nd.cf, p |-> nd.p]

\* C1: releasing a handle H leaves the node of every other handle the
\* caller still holds allocated, with its kind, inputs and parameters as
\* they were, and does not crash; when another held handle was created with
\* H as an input, the node behind H stays allocated and stays an input of
\* that handle's node.
C1_ReleaseLeavesOthersIntact ==
    [][\A i \in 1..Len(owned) : Releases(i) =>
          /\ ~crashed'
          /\ \A j \in (1..Len(owned)) \ {i} :
                LET K == owned[j].h
                    H == owned[i].h
                IN  /\ heap'[K].kind # "free"
                    /\ Content(heap'[K]) = Content(heap[K])
                    /\ (owned[j].a = H \/ owned[j].b = H) =>
                          /\ heap'[H].kind # "free"
                          /\ Content(heap'[H]) = Content(heap[H])
                          /\ H \in Inputs(K)
                          /\ heap'[K].refcnt = heap[K].refcnt]_vars

\* C1 witness: the handle just released was an input of a composite whose
\* handle is still held; its node is still there.
C1_Witness ==
    /\ last.op = "unref" /\ last.h # 0
    /\ last.h \notin OwnedHandles
    /\ \E c \in OwnedCalls : (c.a = last.h \/ c.b = last.h) /\ last.h \in Inputs(c.h)

\* C2: every allocated node has a count of at least 1, at most one held
\* handle, and a count equal to the handles held on it (1 or 0) plus the
\* input slots of allocated nodes that refer to it, with multiplicity; a
\* free slot has count 0; nothing crashed.
C2_RefcountIsHandlePlusSlots ==
    /\ ~crashed
    /\ \A n \in DOMAIN heap :
          IF heap[n].kind = "free" THEN heap[n].refcnt = 0 /\ HandleCount(n) = 0
          ELSE /\ heap[n].refcnt >= 1
               /\ HandleCount(n) <= 1
               /\ heap[n].refcnt = HandleCount(n) + SlotCount(n)

\* C2 witness: a node passed as both inputs of a chain, its handle still
\* held: count 3.
C2_Witness ==
    \E c \in OwnedCalls :
        /\ c.kind = "compose" /\ c.a # 0 /\ c.a = c.b
        /\ c.a \in OwnedHandles
        /\ heap[c.a].refcnt = 3

\* C3: every handle the caller holds is non-zero and names an allocated
\* node, and no two held handles are equal.
C3_HandlesNonZeroDistinct ==
    /\ \A i \in 1..Len(owned) : owned[i].h # 0 /\ owned[i].h \in AllocatedNodes
    /\ \A i, j \in 1..Len(owned) : i # j => owned[i].h # owned[j].h

\* C3 witness: two held handles returned by two calls of the same factory
\* with the same arguments, one of them at an address used before.
C3_Witness ==
    /\ last.op = "create" /\ last.h # 0
    /\ \E i, j \in 1..Len(owned) :
          /\ i # j
          /\ owned[i].kind = owned[j].kind /\ owned[i].p = owned[j].p
          /\ owned[i].a = owned[j].a /\ owned[i].b = owned[j].b

\* C4 as stated: a factory call with every input filter handle absent
\* changes no existing node and returns a node of count 1, and releasing its
\* handle is one decrement on that node only, which frees it, without a
\* crash.
C4_ReleaseAlwaysFrees ==
    [][/\ \A c \in OwnedCalls' \ OwnedCalls :
             (Len(owned') > Len(owned) /\ c.a = 0 /\ c.b = 0) =>
                 /\ heap'[c.h].refcnt = 1
                 /\ \A n \in DOMAIN heap : n # c.h => heap'[n] = heap[n]
       /\ \A i \in 1..Len(owned) :
             (Releases(i) /\ owned[i].a = 0 /\ owned[i].b = 0) =>
                 /\ heap' = [heap EXCEPT ![owned[i].h] = NoNode]
                 /\ ~crashed']_vars

\* C4 amended: a factory call with every input filter handle absent changes
\* no existing node and returns a node of count 1; releasing its handle is
\* one decrement on that node only, without a crash, and it frees the node
\* exactly when no allocated node refers to it (as when the handle is
\* released before it was passed to another factory call); otherwise the
\* node stays, with its count one lower.
C4_AbsentInputSingleDecrement ==
    [][/\ \A c \in OwnedCalls' \ OwnedCalls :
             (Len(owned') > Len(owned) /\ c.a = 0 /\ c.b = 0) =>
                 /\ heap'[c.h].refcnt = 1
                 /\ \A n \in DOMAIN heap : n # c.h => heap'[n] = heap[n]
       /\ \A i \in 1..Len(owned) :
             (Releases(i) /\ owned[i].a = 0 /\ owned[i].b = 0) =>
                 LET h == owned[i].h IN
                 /\ ~crashed'
                 /\ IF SlotCount(h) = 0
                    THEN heap[h].refcnt = 1 /\ heap' = [heap EXCEPT ![h] = NoNode]
                    ELSE heap' = [heap EXCEPT ![h].refcnt = @ - 1]]_vars

\* C4 witness: the handle of a call made with absent inputs was released
\* and its node is free, while another node is still allocated.
C4_Witness ==
    /\ last.op = "unref" /\ last.h # 0 /\ last.absent
    /\ heap[last.h].kind = "free"
    /\ AllocatedNodes # {}

\* C9: a factory call that returns the handle 0 leaves the heap, the colour
\* filters' counts and the caller's handles as they were, and does not crash.
C9_FailedCallChangesNothing ==
    [][(last'.op = "create" /\ last'.h = 0) =>
          /\ heap' = heap
          /\ colorFilters' = colorFilters
          /\ owned' = owned
          /\ ~crashed']_vars

\* C9 witness: a call given a held handle as input returned 0 although the
\* heap had room.
C9_Witness ==
    /\ last.op = "create" /\ last.h = 0 /\ ~last.absent
    /\ FreeAddrs(Mem) # {}
    /\ AllocatedNodes # {}

\* C10: no node is its own descendant; when the caller holds no handle, no
\* node is allocated and every colour filter is back to its own count; the
\* finalizer run on the handle 0 changes nothing.
C10_NoCycleNoLeak ==
    /\ [](\A n \in AllocatedNodes : n \notin Descendants(n))
    /\ [](owned = <<>> => (AllocatedNodes = {} /\ \A cf \in ColorFilterHandles : colorFilters[cf] = 1))
    /\ [][(last'.op = "unref" /\ last'.h = 0) =>
             (heap' = heap /\ colorFilters' = colorFilters /\ owned' = owned /\ ~crashed')]_vars

\* C10 witness: the last handle released was a composite's, its inputs'
\* handles having been released before it, and the heap is empty.
C10_Witness ==
    /\ last.op = "unref" /\ last.h # 0 /\ ~last.absent
    /\ owned = <<>>
    /\ AllocatedNodes = {}

\* References held by running threads on node n: the temporary sk_sp of a
\* call that has run sk_ref_sp on n, the result not yet returned to the
\* caller, and the references a running unref still has to drop.
InFlight(n) ==
    LET Occ(q) == Cardinality({k \in 1..Len(q) : q[k] = n})
        Of(t) == (IF pc[t] = "args" /\ reg[t].inRef /\ reg[t].a = n THEN 1 ELSE 0)
                 + (IF pc[t] = "ret" /\ reg[t].ret = n THEN 1 ELSE 0)
                 + Occ(reg[t].todo)
        RECURSIVE Sum(_)
        Sum(S) == IF S = {} THEN 0
                  ELSE LET t == CHOOSE t \in S : TRUE IN Of(t) + Sum(S \ {t})
    IN  Sum(Thread)

C6_ChainIsOuterAfterInner ==
    \A c \in OwnedCalls : c.kind = "compose" =>
        \A x \in Pix : Eval(c.h, x) = Eval(c.a, Eval(c.b, x))

\* C6 witness: a chain A(B(C(x))) whose inner operand is itself a chain of
\* two different filters, and whose operands do not commute on some pixel.
C6_Witness ==
    \E c \in OwnedCalls, d \in OwnedCalls :
        /\ c.kind = "compose" /\ d.kind = "compose" /\ c.b = d.h
        /\ c.a # 0 /\ d.a # 0 /\ d.b # 0 /\ d.a # d.b
        /\ \E x \in Pix : Eval(c.a, Eval(c.b, x))
                            # Eval(c.b, Eval(c.a, x))

\* C7 as stated: for every blend mode that is not commutative and every two
\* filters whose outputs differ, the node built from (bg, fg, mode) and the
\* node built from (fg, bg, mode) evaluate differently.
C7_SwapAlwaysChangesResult ==
    \A c \in OwnedCalls, d \in OwnedCalls :
        (/\ c.kind = "blend" /\ d.kind = "blend"
         /\ c.a = d.b /\ c.b = d.a /\ c.p = d.p
         /\ ~Commutative(c.p[1]))
        => \A x \in Pix : Eval(c.a, x) # Eval(c.b, x)
                            => Eval(c.h, x) # Eval(d.h, x)

\* C7 amended: the first handle is forwarded as the background (destination)
\* and the second as the foreground (source) of the blend mode passed, and
\* for kSrc, whose result is the foreground alone, the nodes built from
\* (bg, fg) and (fg, bg) evaluate differently wherever the two filters do.
C7_BlendForwardsBgThenFg ==
    /\ \A c \in OwnedCalls : c.kind = "blend" =>
          \A x \in Pix : Eval(c.h, x)
                           = BlendPx(c.p[1], Eval(c.b, x), Eval(c.a, x))
    /\ \A c \in OwnedCalls, d \in OwnedCalls :
          (/\ c.kind = "blend" /\ d.kind = "blend"
           /\ c.a = d.b /\ c.b = d.a /\ c.p = <<kSrc>> /\ d.p = <<kSrc>>)
          => \A x \in Pix : Eval(c.a, x) # Eval(c.b, x)
                              => Eval(c.h, x) # Eval(d.h, x)

\* C7 witness: two kSrc blends of the same two filters in both orders, the
\* filters differing on some pixel.
C7_Witness ==
    \E c \in OwnedCalls, d \in OwnedCalls :
        /\ c.kind = "blend" /\ d.kind = "blend"
        /\ c.a = d.b /\ c.b = d.a /\ c.p = <<kSrc>> /\ d.p = <<kSrc>>
        /\ \E x \in Pix : Eval(c.a, x) # Eval(c.b, x)

====
